---- MODULE Spec2Model ----
(***************************************************************************)
(* A broadcast node of dialtone/fly-dist-sys (src/src/main.rs): the        *)
(* message-handling state machine of Node (handle, rpc, send, gossip,      *)
(* Body::reply) and the event loop of main, run by one node with peers     *)
(* n2 and n3 under an arbitrary harness (Spec) and by a cluster of two     *)
(* nodes over a network that may lose envelopes (ClusterSpec).             *)
(* msg_ids is a u64 in the program; here it stays below 2^64 and is a      *)
(* natural number.                                                         *)
(***************************************************************************)
EXTENDS Integers, Sequences, FiniteSets, TLC

\* ------------------------------------------------------------------ bounds

\* A node handles an event that sends only while its counter is below MaxMsgId.
MaxMsgId == 6
\* Broadcast values are 1..MaxValue.
MaxValue == 2
\* msg_id / in_reply_to of the messages the harness writes are 1..MaxInId (or absent).
MaxInId == 2
\* The harness of the cluster acts at most MaxEvents times in all: a client's
\* request, the loss of an envelope, a tick of a node's interval.
MaxEvents == 3

\* Option::None of msg_id and in_reply_to (Some(k) is the number k >= 0).
None == -1

Nodes == {"n1", "n2", "n3"}
\* node_ids of the init message, the same for every node of the cluster.
PeerList == <<"n1", "n2", "n3">>
Clients == {"c1", "c2"}
Values == 1 .. MaxValue
InIds == 1 .. MaxInId
OptInIds == {None} \cup InIds

\* The characters of a node id (String), for format!.
Chars(s) ==
    CASE s = "n1" -> <<"n", "1">>
      [] s = "n2" -> <<"n", "2">>
      [] s = "n3" -> <<"n", "3">>
      [] OTHER -> <<>>

\* ------------------------------------------------------------------ state

VARIABLES
    phase,      \* main's position per node: "start", "running", "panicked"
    id,         \* Node.id
    nodes,      \* Node.nodes
    msg_ids,    \* Node.msg_ids
    messages,   \* Node.messages (HashSet<usize>)
    pending,    \* Node.pending (HashMap<u64, (String, Body)>)
    net,        \* envelopes written by a node to a peer, not yet read by it
    last,       \* the event the last step served: [kind, node, msg]
    lastOut,    \* the envelopes that step wrote to Node.output, in order
    attempts,   \* per node: wire msg_id -> [dest, message] of each broadcast written
    acked,      \* per node: [dest, message] pairs of the attempts acknowledged
    handled,    \* per node: the values of the broadcast messages handled
    generated,  \* per node of the cluster: the ids of its generate_ok replies, in order
    drops,      \* number of envelopes the network has lost
    ticks,      \* number of interval ticks served in the cluster
    requests    \* per client: the number of requests it has issued in the cluster

vars == <<phase, id, nodes, msg_ids, messages, pending, net, last, lastOut,
          attempts, acked, handled, generated, drops, ticks, requests>>

\* ------------------------------------------------------------------ Msg, Body, Payload

Body(msg_id, in_reply_to, extra) ==
    [msg_id |-> msg_id, in_reply_to |-> in_reply_to, extra |-> extra]

Msg(src, dest, body) == [src |-> src, dest |-> dest, body |-> body]

Echo(echo) == [type |-> "echo", echo |-> echo]
EchoOk(echo) == [type |-> "echo_ok", echo |-> echo]
InitP(node_id, node_ids) == [type |-> "init", node_id |-> node_id, node_ids |-> node_ids]
InitOk == [type |-> "init_ok"]
Generate == [type |-> "generate"]
GenerateOk(gid) == [type |-> "generate_ok", id |-> gid]
Broadcast(message) == [type |-> "broadcast", message |-> message]
BroadcastOk == [type |-> "broadcast_ok"]
Read == [type |-> "read"]
ReadOk(msgs) == [type |-> "read_ok", messages |-> msgs]
Topology == [type |-> "topology"]
TopologyOk == [type |-> "topology_ok"]

NoBody == [type |-> "none"]

\* ------------------------------------------------------------------ helpers

MapInsert(m, k, v) == [x \in (DOMAIN m) \cup {k} |-> IF x = k THEN v ELSE m[x]]

\* A remove that empties the map.
MapClear(m, k) == [x \in {} |-> m[x]]

MapRemove(m, k) == [x \in (DOMAIN m) \ {k} |-> m[x]]

EmptyMap == [x \in {} |-> 0]

\* The orders in which a HashSet or HashMap with these elements may be iterated.
Orders(S) ==
    {s \in [1 .. Cardinality(S) -> S] : \A i, j \in 1 .. Cardinality(S) : s[i] = s[j] => i = j}

Range(s) == {s[i] : i \in 1 .. Len(s)}

Digit(d) ==
    CASE d = 0 -> "0" [] d = 1 -> "1" [] d = 2 -> "2" [] d = 3 -> "3" [] d = 4 -> "4"
      [] d = 5 -> "5" [] d = 6 -> "6" [] d = 7 -> "7" [] d = 8 -> "8" [] d = 9 -> "9"

\* Display of a u64: its decimal digits.
RECURSIVE Decimal(_)
Decimal(k) == IF k < 10 THEN <<Digit(k)>> ELSE Append(Decimal(k \div 10), Digit(k % 10))

\* The id without the node's id: the counter alone.
FormatCounter(node_id, counter) == Decimal(counter)

\* format!("{}-{}", node.id, node.msg_ids)
FormatId(node_id, counter) == Chars(node_id) \o <<"-">> \o Decimal(counter)

\* ------------------------------------------------------------------ Node

\* A Node value: its fields, the lines written to `output`, and whether a panic
\* (an unwrap of None) has aborted the process.
NodeOf(n) ==
    [id |-> id[n], nodes |-> nodes[n], msg_ids |-> msg_ids[n], messages |-> messages[n],
     pending |-> pending[n], output |-> <<>>, panicked |-> FALSE]

\* Node::new
NodeNew(node_id, node_ids) ==
    [id |-> node_id, nodes |-> node_ids, msg_ids |-> 0, messages |-> {},
     pending |-> EmptyMap, output |-> <<>>, panicked |-> FALSE]

\* A send that stamps the next value and leaves the counter where it was.
SendStale(node, dest, body) ==
    IF node.panicked THEN node
    ELSE [node EXCEPT !.output = Append(@, Msg(node.id, dest,
                                               [body EXCEPT !.msg_id = node.msg_ids + 1]))]

\* Node::send: bump the counter, stamp the body with it, write the envelope.
Send(node, dest, body) ==
    IF node.panicked THEN node
    ELSE [node EXCEPT !.msg_ids = @ + 1,
                      !.output = Append(@, Msg(node.id, dest,
                                               [body EXCEPT !.msg_id = node.msg_ids + 1]))]

\* A key that is the msg_id the envelope is about to be stamped with.
RpcKeyWire(node, body) == node.msg_ids + 1

\* The key under which Node::rpc stores the entry: body.msg_id.unwrap().
RpcKey(node, body) == body.msg_id

\* Node::rpc: insert (dest, body) under the msg_id the body carries, then send.
Rpc(node, dest, body) ==
    IF node.panicked THEN node
    ELSE IF body.msg_id = None THEN [node EXCEPT !.panicked = TRUE]
    ELSE Send([node EXCEPT !.pending =
                   MapInsert(@, RpcKey(node, body), [dest |-> dest, body |-> body])],
              dest, body)

\* Node::gossip: take the table, rpc every drained entry in iteration order `ord`.
RECURSIVE GossipLoop(_, _, _)
GossipLoop(node, drained, ord) ==
    IF ord = <<>> THEN node
    ELSE GossipLoop(Rpc(node, drained[Head(ord)].dest, drained[Head(ord)].body),
                    drained, Tail(ord))

Gossip(node, ord) == GossipLoop([node EXCEPT !.pending = EmptyMap], node.pending, ord)

\* A loop that skips the node itself only.
SkipsSelf(node, peer, src) == peer = node.id

\* Whether the forwarding loop skips peer `peer` for a broadcast received from `src`.
Skips(node, peer, src) == peer = node.id \/ peer = src

\* The loop of the Broadcast arm of Node::handle, from index idx of node.nodes.
RECURSIVE Forward(_, _, _)
Forward(node, msg, idx) ==
    IF idx > Len(node.nodes) THEN node
    ELSE IF Skips(node, node.nodes[idx], msg.src) THEN Forward(node, msg, idx + 1)
    ELSE Forward(Rpc(node, node.nodes[idx], msg.body), msg, idx + 1)

\* The value is not kept.
Forget(seen, message) == seen

\* messages.insert of the Broadcast arm.
Remember(seen, message) == seen \cup {message}

\* A reply that also answers the _ok messages of the other workloads, with
\* their own payload.
ReplyAll(body, node, vec) ==
    LET t == body.extra.type IN
    CASE t = "init" -> Body(None, body.msg_id, InitOk)
      [] t = "echo" -> Body(None, body.msg_id, EchoOk(body.extra.echo))
      [] t = "generate" -> Body(None, body.msg_id, GenerateOk(FormatId(node.id, node.msg_ids)))
      [] t = "broadcast" -> Body(None, body.msg_id, BroadcastOk)
      [] t = "read" -> Body(None, body.msg_id, ReadOk(vec))
      [] t = "topology" -> Body(None, body.msg_id, TopologyOk)
      [] t \in {"init_ok", "echo_ok", "generate_ok", "read_ok", "topology_ok"} ->
            Body(None, body.msg_id, body.extra)
      [] OTHER -> NoBody

\* Body::reply; vec is the order in which node.messages is iterated.
Reply(body, node, vec) ==
    LET t == body.extra.type IN
    CASE t = "init" -> Body(None, body.msg_id, InitOk)
      [] t = "echo" -> Body(None, body.msg_id, EchoOk(body.extra.echo))
      [] t = "generate" -> Body(None, body.msg_id, GenerateOk(FormatId(node.id, node.msg_ids)))
      [] t = "broadcast" -> Body(None, body.msg_id, BroadcastOk)
      [] t = "read" -> Body(None, body.msg_id, ReadOk(vec))
      [] t = "topology" -> Body(None, body.msg_id, TopologyOk)
      [] OTHER -> NoBody

\* A match that forwards every broadcast, seen before or not.
DispatchAll(node, msg) ==
    LET t == msg.body.extra.type IN
    CASE t = "broadcast" ->
            Forward([node EXCEPT !.messages = Remember(@, msg.body.extra.message)], msg, 1)
      [] t = "broadcast_ok" ->
            IF msg.body.in_reply_to = None THEN [node EXCEPT !.panicked = TRUE]
            ELSE [node EXCEPT !.pending = MapRemove(@, msg.body.in_reply_to)]
      [] OTHER -> node

\* The match of Node::handle on the payload, before the reply.
Dispatch(node, msg) ==
    LET t == msg.body.extra.type IN
    CASE t = "broadcast" ->
            IF msg.body.extra.message \notin node.messages
            THEN Forward([node EXCEPT !.messages = Remember(@, msg.body.extra.message)], msg, 1)
            ELSE node
      [] t = "broadcast_ok" ->
            IF msg.body.in_reply_to = None THEN [node EXCEPT !.panicked = TRUE]
            ELSE [node EXCEPT !.pending = MapRemove(@, msg.body.in_reply_to)]
      [] OTHER -> node

\* A handle that addresses the reply to the node itself.
HandleToSelf(node, msg, vec) ==
    LET after == Dispatch(node, msg)
        next_msg == Reply(msg.body, after, vec)
    IN  IF after.panicked \/ next_msg = NoBody THEN after
        ELSE Send(after, node.id, next_msg)

\* Node::handle
Handle(node, msg, vec) ==
    LET after == Dispatch(node, msg)
        next_msg == Reply(msg.body, after, vec)
    IN  IF after.panicked \/ next_msg = NoBody THEN after
        ELSE Send(after, msg.src, next_msg)

\* ------------------------------------------------------------------ bookkeeping

IsBroadcast(e) == e.body.extra.type = "broadcast"

\* The [dest, message] pair of a broadcast envelope.
Pair(e) == [dest |-> e.dest, message |-> e.body.extra.message]

\* attempts of a node, extended by the broadcast envelopes of `out`.
RECURSIVE Record(_, _)
Record(att, out) ==
    IF out = <<>> THEN att
    ELSE Record(IF IsBroadcast(Head(out))
                THEN MapInsert(att, Head(out).body.msg_id, Pair(Head(out)))
                ELSE att,
                Tail(out))

\* The msg_id of the most recent broadcast envelope of pair p in att.
LatestAttempt(att, p) ==
    CHOOSE w \in DOMAIN att : att[w] = p /\ \A x \in DOMAIN att : att[x] = p => x <= w

\* The attempt a broadcast_ok acknowledges: the one stamped with its in_reply_to,
\* when it comes from the peer that attempt was addressed to.
Acks(att, msg) ==
    IF /\ msg.body.extra.type = "broadcast_ok"
       /\ msg.body.in_reply_to \in DOMAIN att
       /\ att[msg.body.in_reply_to].dest = msg.src
    THEN LET p == att[msg.body.in_reply_to] IN
         {[dest |-> p.dest, message |-> p.message,
           latest |-> LatestAttempt(att, p) = msg.body.in_reply_to]}
    ELSE {}

\* The ids of the generate_ok envelopes of `out`, in order.
RECURSIVE Ids(_)
Ids(out) ==
    IF out = <<>> THEN <<>>
    ELSE (IF Head(out).body.extra.type = "generate_ok" THEN <<Head(out).body.extra.id>> ELSE <<>>)
         \o Ids(Tail(out))

NoMsg == Msg("", "", Body(None, None, NoBody))

\* The envelopes of `out` addressed to a node of the cluster.
ToPeers(out) == {out[i] : i \in {j \in 1 .. Len(out) : out[j].dest \in Nodes}}

\* Node n leaves an event as `node`: its fields, main's position and the history.
Commit(n, node, ev) ==
    /\ phase' = [phase EXCEPT ![n] = IF node.panicked THEN "panicked" ELSE "running"]
    /\ id' = [id EXCEPT ![n] = node.id]
    /\ nodes' = [nodes EXCEPT ![n] = node.nodes]
    /\ msg_ids' = [msg_ids EXCEPT ![n] = node.msg_ids]
    /\ messages' = [messages EXCEPT ![n] = node.messages]
    /\ pending' = [pending EXCEPT ![n] = node.pending]
    /\ last' = ev
    /\ lastOut' = node.output
    /\ attempts' = [attempts EXCEPT ![n] = Record(@, node.output)]
    /\ acked' = [acked EXCEPT ![n] = @ \cup (IF ev.kind = "handle" /\ ~node.panicked
                                             THEN Acks(attempts[n], ev.msg) ELSE {})]
    /\ handled' = [handled EXCEPT ![n] =
                      IF ev.kind = "handle" /\ ev.msg.body.extra.type = "broadcast"
                      THEN @ \cup {ev.msg.body.extra.message} ELSE @]

\* The cluster keeps the ids node n wrote in generate_ok replies.
KeepIds(n) == generated' = [generated EXCEPT ![n] = @ \o Ids(lastOut')]

\* ------------------------------------------------------------------ main

\* main, lines 214-226: the first line must be init; build the Node, answer init_ok.
Bootstrap(n, msg) ==
    /\ phase[n] = "start"
    /\ IF msg.body.extra.type = "init"
       THEN LET node == NodeNew(msg.body.extra.node_id, msg.body.extra.node_ids) IN
            Commit(n, Send(node, msg.src, Reply(msg.body, node, <<>>)),
                   [kind |-> "init", node |-> n, msg |-> msg, fresh |-> FALSE])
       ELSE Commit(n, [NodeOf(n) EXCEPT !.panicked = TRUE],
                   [kind |-> "init", node |-> n, msg |-> msg, fresh |-> FALSE])

Sends(msg) ==
    msg.body.extra.type \in {"init", "echo", "generate", "broadcast", "read", "topology"}

\* main, lines 231-234: read a line and handle it.
Receive(n, msg, vec) ==
    /\ phase[n] = "running"
    /\ Sends(msg) => msg_ids[n] < MaxMsgId
    /\ Commit(n, Handle(NodeOf(n), msg, vec),
              [kind |-> "handle", node |-> n, msg |-> msg,
               fresh |-> msg.body.extra.type = "broadcast"
                         /\ msg.body.extra.message \notin messages[n]])

\* The orders in which the reply to msg may list the node's messages.
Vecs(n, msg) ==
    IF msg.body.extra.type = "read" THEN Orders(messages[n]) ELSE {<<>>}

\* main, lines 239-241: the interval ticks.
Tick(n, ord) ==
    /\ phase[n] = "running"
    /\ msg_ids[n] < MaxMsgId
    /\ Commit(n, Gossip(NodeOf(n), ord),
              [kind |-> "gossip", node |-> n, msg |-> NoMsg, fresh |-> FALSE])

Init ==
    /\ phase = [n \in Nodes |-> "start"]
    /\ id = [n \in Nodes |-> ""]
    /\ nodes = [n \in Nodes |-> <<>>]
    /\ msg_ids = [n \in Nodes |-> 0]
    /\ messages = [n \in Nodes |-> {}]
    /\ pending = [n \in Nodes |-> EmptyMap]
    /\ net = {}
    /\ last = [kind |-> "none", node |-> "", msg |-> NoMsg, fresh |-> FALSE]
    /\ lastOut = <<>>
    /\ attempts = [n \in Nodes |-> EmptyMap]
    /\ acked = [n \in Nodes |-> {}]
    /\ handled = [n \in Nodes |-> {}]
    /\ generated = [n \in Nodes |-> <<>>]
    /\ drops = 0
    /\ ticks = 0
    /\ requests = [c \in Clients |-> 0]

\* ------------------------------------------------------------------ one node, any harness

\* The node of Spec.
Self == "n1"

Peers == Nodes \ {Self}

Requests == {Echo("a"), InitP(Self, PeerList), Generate, Read, Topology}

Replies == {EchoOk("a"), InitOk, GenerateOk(FormatId("n2", 1)), ReadOk(<<>>), TopologyOk}

\* The values the harness may broadcast to the node: one it has handled, or the
\* least one it has not (the code treats all values alike).
Offered == {v \in Values : \A u \in Values : u < v => u \in handled[Self]}

\* The structurally valid lines the harness may write to the node: a broadcast
\* from a client or a peer, a broadcast_ok from a peer, and the other kinds of
\* message from a client; msg_id and in_reply_to present or absent.
Inbound ==
    {Msg(src, Self, Body(m, None, Broadcast(v))) :
        src \in {"c1"} \cup Peers, m \in OptInIds, v \in Offered}
    \cup {Msg(src, Self, Body(None, r, BroadcastOk)) : src \in Peers, r \in OptInIds}
    \cup {Msg("c1", Self, Body(m, None, x)) : m \in {None, 1}, x \in Requests}
    \cup {Msg("c1", Self, Body(None, 1, x)) : x \in Replies}

HarnessInit ==
    \E msg \in Inbound :
        Bootstrap(Self, msg) /\ UNCHANGED <<net, generated, drops, ticks, requests>>

HarnessSend ==
    \E msg \in Inbound : \E vec \in Vecs(Self, msg) :
        Receive(Self, msg, vec) /\ UNCHANGED <<net, generated, drops, ticks, requests>>

HarnessTick ==
    \E ord \in Orders(DOMAIN pending[Self]) :
        Tick(Self, ord) /\ UNCHANGED <<net, generated, drops, ticks, requests>>

Next == HarnessInit \/ HarnessSend \/ HarnessTick

Spec == Init /\ [][Next]_vars

\* ------------------------------------------------------------------ a cluster of nodes

\* The number of times the harness has acted.
Events == requests["c1"] + requests["c2"] + drops + ticks

\* The values no node holds yet.
Unused == Values \ UNION {messages[n] : n \in Nodes}

\* What client c asks of a node next: it numbers its requests 1, 2, ..., and
\* the harness broadcasts each value once, 1, 2, ... in turn.
ClientBodies(c) ==
    {Body(requests[c] + 1, None, x) :
        x \in {Generate} \cup {Broadcast(v) : v \in {u \in Unused : \A w \in Unused : u <= w}}}

\* The nodes the harness starts in the cluster, and the node_ids it gives them.
Members == {"n1", "n2"}

MemberList == <<"n1", "n2">>

\* The harness starts a node: its first line is init.
ClusterInit ==
    \E n \in Members :
        /\ Bootstrap(n, Msg("c0", n, Body(1, None, InitP(n, MemberList))))
        /\ KeepIds(n)
        /\ UNCHANGED <<net, drops, ticks, requests>>

ClientRequest ==
    \E n \in Members : \E c \in Clients : \E body \in ClientBodies(c) :
        \E vec \in Vecs(n, Msg(c, n, body)) :
            /\ Events < MaxEvents
            /\ c = "c2" => requests["c2"] < requests["c1"]
            /\ Receive(n, Msg(c, n, body), vec)
            /\ KeepIds(n)
            /\ net' = net \cup ToPeers(lastOut')
            /\ requests' = [requests EXCEPT ![c] = @ + 1]
            /\ UNCHANGED <<drops, ticks>>

\* The network hands an envelope to the node it is addressed to.
Deliver ==
    \E m \in net :
        /\ Receive(m.dest, m, <<>>)
        /\ KeepIds(m.dest)
        /\ net' = (net \ {m}) \cup ToPeers(lastOut')
        /\ UNCHANGED <<drops, ticks, requests>>

\* The network loses an envelope.
Drop ==
    \E m \in net :
        /\ Events < MaxEvents
        /\ net' = net \ {m}
        /\ drops' = drops + 1
        /\ UNCHANGED <<phase, id, nodes, msg_ids, messages, pending, last, lastOut,
                       attempts, acked, handled, generated, ticks, requests>>

ClusterTick ==
    \E n \in Members : \E ord \in Orders(DOMAIN pending[n]) :
        /\ Events < MaxEvents
        /\ Tick(n, ord)
        /\ net' = net \cup ToPeers(lastOut')
        /\ ticks' = ticks + 1
        /\ KeepIds(n)
        /\ UNCHANGED <<drops, requests>>

ClusterNext == ClusterInit \/ ClientRequest \/ Deliver \/ Drop \/ ClusterTick

ClusterSpec == Init /\ [][ClusterNext]_vars

\* ------------------------------------------------------------------ claims

\* Value v is on its way to or retried by no one: no envelope in flight and no
\* Pending entry of any node carries it.
NoCarrier(v) ==
    /\ \A e \in net : ~(IsBroadcast(e) /\ e.body.extra.message = v)
    /\ \A n \in Nodes : \A k \in DOMAIN pending[n] : pending[n][k].body.extra.message # v

AllRunning == \A n \in Members : phase[n] = "running"

\* C1: every value a node accepted reaches every node. The run that refutes it is
\* finite: once nothing carries v any more (no envelope in flight, no Pending
\* entry, and clients never repeat a value), a node without v stays without it.
C1_Delivered ==
    \A v \in Values :
        (AllRunning /\ NoCarrier(v) /\ \E n \in Members : v \in messages[n])
            => \A m \in Members : v \in messages[m]

\* The envelopes of the last step that are broadcasts of value v to dest d.
Forwards(d, v) ==
    {i \in 1 .. Len(lastOut) :
        IsBroadcast(lastOut[i]) /\ lastOut[i].dest = d /\ lastOut[i].body.extra.message = v}

\* The Pending entries of node n for the pair p.
Entries(n, p) ==
    {k \in DOMAIN pending[n] :
        pending[n][k].dest = p.dest /\ pending[n][k].body.extra.message = p.message}

HandledBroadcast == last.kind = "handle" /\ last.msg.body.extra.type = "broadcast"

\* C2: once a broadcast_ok with the msg_id of the latest attempt of a
\* propagation has been handled, the node holds no Pending entry for that
\* destination and value, and a gossip tick resends it no more.
C2_AckClears ==
    \A p \in acked[Self] :
        p.latest =>
            /\ Entries(Self, p) = {}
            /\ last.kind = "gossip" => Forwards(p.dest, p.message) = {}

\* C3: every (destination, value) the node has sent a propagation to, and for
\* which it has handled no matching broadcast_ok, has an entry in Pending.
C3_PendingKept ==
    \A w \in DOMAIN attempts[Self] :
        (phase[Self] = "running"
         /\ \A a \in acked[Self] :
                ~(a.dest = attempts[Self][w].dest /\ a.message = attempts[Self][w].message))
            => Entries(Self, attempts[Self][w]) # {}

\* C4: the key of every Pending entry is the msg_id the node stamped on the most
\* recent envelope it wrote for that entry's destination and value.
C4_KeyedByWireId ==
    \A k \in DOMAIN pending[Self] :
        LET p == [dest |-> pending[Self][k].dest,
                  message |-> pending[Self][k].body.extra.message]
        IN  /\ k \in DOMAIN attempts[Self]
            /\ attempts[Self][k] = p
            /\ LatestAttempt(attempts[Self], p) = k

\* C5: with a network that loses nothing, Pending drains: when no envelope is in
\* flight any more (every propagation was delivered and its acknowledgement
\* handled), no node holds a Pending entry, so no tick resends anything.
C5_Drained ==
    (drops = 0 /\ AllRunning /\ net = {})
        => \A n \in Members : DOMAIN pending[n] = {}

\* C6: the messages of a read_ok are the distinct values of the broadcast
\* messages the node has handled, each once.
C6_ReadOk ==
    (last.kind = "handle" /\ last.msg.body.extra.type = "read")
        => /\ Len(lastOut) = 1
           /\ lastOut[1].body.extra.type = "read_ok"
           /\ Range(lastOut[1].body.extra.messages) = handled[last.node]
           /\ Len(lastOut[1].body.extra.messages) = Cardinality(handled[last.node])

C6_Witness ==
    /\ last.kind = "handle" /\ last.msg.body.extra.type = "read"
    /\ handled[Self] = Values
    /\ Len(lastOut) = 1 /\ Len(lastOut[1].body.extra.messages) = MaxValue

\* C7: handling a broadcast of a value not yet seen, from sender S, writes
\* exactly one broadcast of that value to every peer other than the node and S,
\* and to no one else.
C7_Forwarded ==
    (HandledBroadcast /\ last.fresh)
        => /\ \A d \in Range(nodes[last.node]) \ {id[last.node], last.msg.src} :
                  Cardinality(Forwards(d, last.msg.body.extra.message)) = 1
           /\ \A i \in 1 .. Len(lastOut) :
                  IsBroadcast(lastOut[i])
                      => /\ lastOut[i].body.extra.message = last.msg.body.extra.message
                         /\ lastOut[i].dest \in
                                Range(nodes[last.node]) \ {id[last.node], last.msg.src}

\* C8: no step writes a broadcast addressed to the node itself, and handling a
\* broadcast of v from peer P writes no broadcast of v addressed to P.
C8_NoSelfNoSender ==
    \A i \in 1 .. Len(lastOut) :
        IsBroadcast(lastOut[i])
            => /\ lastOut[i].dest # last.node
               /\ HandledBroadcast
                      => ~(/\ lastOut[i].dest = last.msg.src
                           /\ lastOut[i].body.extra.message = last.msg.body.extra.message)

\* A broadcast of a new value from peer n2 was forwarded to n3.
C8_Witness ==
    /\ HandledBroadcast /\ last.fresh /\ last.msg.src = "n2"
    /\ Forwards("n3", last.msg.body.extra.message) # {}

\* C9: every broadcast handled is answered by exactly one broadcast_ok, to the
\* sender, with in_reply_to the msg_id of the request.
C9_BroadcastOk ==
    HandledBroadcast
        => \E i \in 1 .. Len(lastOut) :
              /\ lastOut[i].body.extra.type = "broadcast_ok"
              /\ lastOut[i].dest = last.msg.src
              /\ lastOut[i].body.in_reply_to = last.msg.body.msg_id
              /\ \A j \in 1 .. Len(lastOut) :
                    lastOut[j].body.extra.type = "broadcast_ok" => j = i

\* C10: the ids a node generates are pairwise distinct, and differ from every id
\* generated by another node.
C10_UniqueIds ==
    \A n, m \in Nodes :
        \A i \in 1 .. Len(generated[n]) : \A j \in 1 .. Len(generated[m]) :
            (n # m \/ i # j) => generated[n][i] # generated[m][j]

C10_Witness ==
    /\ Len(generated["n1"]) >= 2
    /\ Len(generated["n2"]) >= 1

\* C11: every envelope a node writes carries a msg_id, and the msg_ids of its
\* envelopes are strictly increasing in emission order: the envelopes of a step
\* are stamped counter+1, counter+2, ... from the counter the step found, and the
\* step leaves the counter at the last msg_id it stamped.
C11_Stamped ==
    [][/\ \A i \in 1 .. Len(lastOut') :
             /\ lastOut'[i].body.msg_id # None
             /\ lastOut'[i].body.msg_id = msg_ids[Self] + i
       /\ msg_ids'[Self] = msg_ids[Self] + Len(lastOut')]_vars

\* A new value from a client was forwarded to both peers and acknowledged:
\* three envelopes in one step, after the init_ok of an earlier one.
C11_Witness ==
    /\ HandledBroadcast /\ last.fresh
    /\ Len(lastOut) = 3
    /\ lastOut[1].body.msg_id > 1

\* The [dest, message] pair of a Pending entry.
EntryPair(entry) == [dest |-> entry.dest, message |-> entry.body.extra.message]

\* The envelopes of the step being taken that are broadcasts of the pair p.
Resends(p) == {i \in 1 .. Len(lastOut') : IsBroadcast(lastOut'[i]) /\ Pair(lastOut'[i]) = p}

\* The step being taken keeps a Pending entry for every pair the table holds.
EntriesKept ==
    \A k \in DOMAIN pending[Self] :
        \E j \in DOMAIN pending'[Self] :
            EntryPair(pending'[Self][j]) = EntryPair(pending[Self][k])

\* The step being taken is a gossip tick.
Ticking == last'.kind = "gossip"

\* The step being taken handles a message that is not a broadcast_ok, and the
\* node survives it.
HandlingNoAck ==
    /\ last'.kind = "handle"
    /\ last'.msg.body.extra.type # "broadcast_ok"
    /\ phase'[Self] = "running"

\* C12: a gossip tick writes exactly one broadcast for the destination and value
\* of each entry the Pending table holds when it starts, and keeps the entry;
\* an entry that has been resent by a tick and for which no acknowledgement is
\* handled stays in the table, so that the next tick resends it again.
C12_Resent ==
    [][/\ Ticking =>
             /\ \A k \in DOMAIN pending[Self] :
                   Cardinality(Resends(EntryPair(pending[Self][k]))) = 1
             /\ EntriesKept
       /\ (last.kind = "gossip" /\ HandlingNoAck) => EntriesKept]_vars

\* The step being taken handles a message of payload type t.
Handling(t) == last'.kind = "handle" /\ last'.msg.body.extra.type = t

\* The step being taken writes nothing and leaves SeenSet, Pending and the
\* counter as they were, and the node running.
Untouched ==
    /\ lastOut' = <<>>
    /\ messages'[Self] = messages[Self]
    /\ pending'[Self] = pending[Self]
    /\ msg_ids'[Self] = msg_ids[Self]
    /\ phase'[Self] = "running"

\* C13: handling a broadcast_ok whose in_reply_to is the key of no Pending
\* entry leaves Pending, SeenSet and the counter unchanged, writes no envelope,
\* and the node keeps running.
C13_UnmatchedAck ==
    [][(/\ Handling("broadcast_ok")
        /\ last'.msg.body.in_reply_to # None
        /\ last'.msg.body.in_reply_to \notin DOMAIN pending[Self]) => Untouched]_vars

\* A broadcast_ok with in_reply_to 2 was handled while the only entry the table
\* has ever held (one value seen) is under key 1, and the entry is still there.
C13_Witness ==
    /\ last.kind = "handle" /\ last.msg.body.extra.type = "broadcast_ok"
    /\ last.msg.body.in_reply_to = 2
    /\ messages[Self] = {1}
    /\ DOMAIN pending[Self] = {1}
    /\ phase[Self] = "running"

\* C14: the SeenSet only grows, and a value enters it only in a step that
\* handles a broadcast of it, from some sender S, by the end of which the node
\* has written a broadcast of the value to every peer other than itself and S
\* (the envelopes a node has written stay written, so this then holds in every
\* later state).
C14_SeenForwarded ==
    [][/\ messages[Self] \subseteq messages'[Self]
       /\ \A v \in messages'[Self] \ messages[Self] :
             /\ Handling("broadcast")
             /\ last'.msg.body.extra.message = v
             /\ \A d \in Range(nodes'[Self]) \ {id'[Self], last'.msg.src} :
                   \E w \in DOMAIN attempts'[Self] :
                       attempts'[Self][w] = [dest |-> d, message |-> v]]_vars

\* C15: handling a broadcast of a value already in the SeenSet writes no
\* broadcast to any peer and leaves the SeenSet and the Pending table unchanged;
\* the only envelope written is the broadcast_ok to the sender.
C15_SeenNotForwarded ==
    [][(Handling("broadcast") /\ last'.msg.body.extra.message \in messages[Self])
        => /\ messages'[Self] = messages[Self]
           /\ pending'[Self] = pending[Self]
           /\ Len(lastOut') = 1
           /\ lastOut'[1].body.extra.type = "broadcast_ok"
           /\ lastOut'[1].dest = last'.msg.src]_vars

\* A value the node holds, with its propagation still pending, was broadcast to
\* it again by a peer.
C15_Witness ==
    /\ HandledBroadcast /\ ~last.fresh
    /\ last.msg.src \in Peers
    /\ \E k \in DOMAIN pending[Self] :
          pending[Self][k].body.extra.message = last.msg.body.extra.message
    /\ Len(lastOut) = 1

\* The payload type that answers a request of type t.
OkOf(t) ==
    CASE t = "init" -> "init_ok"
      [] t = "echo" -> "echo_ok"
      [] t = "generate" -> "generate_ok"
      [] t = "broadcast" -> "broadcast_ok"
      [] t = "read" -> "read_ok"
      [] t = "topology" -> "topology_ok"
      [] OTHER -> "none"

\* The envelopes of the last step other than the broadcasts it forwarded.
Answers == {i \in 1 .. Len(lastOut) : ~IsBroadcast(lastOut[i])}

\* C16: for the message a step served, from sender S, the node writes at most
\* one reply; the reply goes to S, its in_reply_to is the msg_id of the message,
\* and its type is the _ok type of the message's type (an echo_ok carries the
\* echo string of the echo).
C16_OneReply ==
    last.kind \in {"init", "handle"}
        => /\ Cardinality(Answers) <= 1
           /\ \A i \in Answers :
                 /\ lastOut[i].dest = last.msg.src
                 /\ lastOut[i].body.in_reply_to = last.msg.body.msg_id
                 /\ lastOut[i].body.extra.type = OkOf(last.msg.body.extra.type)
                 /\ last.msg.body.extra.type = "echo"
                       => lastOut[i].body.extra.echo = last.msg.body.extra.echo

\* An echo with msg_id 1 was answered.
C16_Witness ==
    /\ last.kind = "handle" /\ last.msg.body.extra.type = "echo"
    /\ last.msg.body.msg_id = 1
    /\ Len(lastOut) = 1
    /\ lastOut[1].body.extra.type = "echo_ok"
    /\ lastOut[1].body.in_reply_to = 1

\* The payload types of the replies other than broadcast_ok.
OtherOks == {"init_ok", "echo_ok", "generate_ok", "read_ok", "topology_ok"}

\* C17: handling an echo_ok, init_ok, generate_ok, read_ok or topology_ok writes
\* no envelope and leaves the SeenSet, the Pending table and the counter
\* unchanged.
C17_OkIgnored ==
    [][(last'.kind = "handle" /\ last'.msg.body.extra.type \in OtherOks) => Untouched]_vars

\* A generate_ok was handled by a node that holds a value and a Pending entry.
C17_Witness ==
    /\ last.kind = "handle" /\ last.msg.body.extra.type = "generate_ok"
    /\ messages[Self] # {} /\ DOMAIN pending[Self] # {}
    /\ lastOut = <<>>
    /\ phase[Self] = "running"

\* The msg_ids the node stamped on the broadcasts it wrote for the destination
\* and value of a Pending entry.
AttemptIds(entry) ==
    {w \in DOMAIN attempts[Self] : attempts[Self][w] = EntryPair(entry)}

\* C18: handling a broadcast_ok from peer P keeps every Pending entry whose
\* destination is not P, and every entry none of whose propagation attempts
\* carried the msg_id the broadcast_ok names in in_reply_to.
C18_AckRemovesOwn ==
    [][Handling("broadcast_ok") =>
          \A k \in DOMAIN pending[Self] :
              (\/ pending[Self][k].dest # last'.msg.src
               \/ last'.msg.body.in_reply_to \notin AttemptIds(pending[Self][k]))
                  => /\ k \in DOMAIN pending'[Self]
                     /\ pending'[Self][k] = pending[Self][k]]_vars

\* C19: once the node is past its bootstrap, handling a structurally valid
\* message never aborts it, whether or not the body carries msg_id or
\* in_reply_to.
C19_NeverAborts ==
    last.kind = "handle" => phase[last.node] # "panicked"

\* C20: the Pending table never holds more entries than the SeenSet holds
\* values, and every entry is stored under the msg_id its own body carries;
\* handling one broadcast adds at most one key, to however many peers it is
\* forwarded, and a gossip tick puts every entry back under the key it had.
C20_KeyedByBody ==
    [][/\ Cardinality(DOMAIN pending'[Self]) <= Cardinality(messages'[Self])
       /\ \A k \in DOMAIN pending'[Self] : pending'[Self][k].body.msg_id = k
       /\ Handling("broadcast")
             => Cardinality(DOMAIN pending'[Self] \ DOMAIN pending[Self]) <= 1
       /\ Ticking => pending'[Self] = pending[Self]]_vars

\* A new value from a client, with msg_id 2, was forwarded to both peers: the
\* table gained the one key 2, next to the entry of an earlier value.
C20_Witness ==
    /\ HandledBroadcast /\ last.fresh
    /\ last.msg.body.msg_id = 2
    /\ Cardinality({lastOut[i].dest : i \in {j \in 1 .. Len(lastOut) : IsBroadcast(lastOut[j])}}) = 2
    /\ DOMAIN pending[Self] = {1, 2}

====
